---- MODULE Spec2Model ----
(***************************************************************************)
(* caldp/exit_codes.py: the registry of CALDP process exit codes, the     *)
(* table of UNIX signal explanations parsed from signum.h text, and the   *)
(* lookup functions explain, is_memory_error and explain_signal.          *)
(*                                                                         *)
(* A Python str is a TLA+ string; text that the code scans character by   *)
(* character (the signum.h text) is a sequence of one-character strings.  *)
(* A Python int-or-str value is a record tagged with its type, so that    *)
(* 31 and "31" are different dictionary keys, as they are in Python.      *)
(***************************************************************************)
EXTENDS Integers, Sequences, FiniteSets, TLC

VARIABLES
  pc,                  \* position of the module's top-level code
  _EXIT_CODES,         \* dict name -> code, as its items() in insertion order
  _NAME_EXPLANATIONS,  \* dict name -> explanation
  _CODE_TO_NAME,       \* dict code or str(code) -> name
  globals,             \* the named constants injected into the module namespace
  i,                   \* position of the registry loop in _EXIT_CODES.items()
  SIGNUM_EXPLANATION,  \* dict signum -> explanation
  lineno,              \* position of the signal loop in the lines of the text
  last                 \* the most recent call of a module function and its outcome

vars == <<pc, _EXIT_CODES, _NAME_EXPLANATIONS, _CODE_TO_NAME, globals, i,
          SIGNUM_EXPLANATION, lineno, last>>

tables == <<_EXIT_CODES, _NAME_EXPLANATIONS, _CODE_TO_NAME, globals, SIGNUM_EXPLANATION>>

----------------------------------------------------------------------------
\* Bounds of the model.

\* explain and is_memory_error are called with every int from -MaxNeg to
\* MaxBeyond above the largest declared code
MaxNeg == 2
MaxBeyond == 4
\* explain_signal is called with every int in -MaxNeg .. MaxSignalProbe
MaxSignalProbe == 34
\* a hypothetical declaration table has at most MaxDeclared names, each given
\* a code in 0 .. MaxDeclaredCode
MaxDeclared == 2
MaxDeclaredCode == 1

----------------------------------------------------------------------------
\* Python values and strings.

PyInt(n) == [t |-> "int", n |-> n, s |-> ""]
PyStr(s) == [t |-> "str", n |-> 0, s |-> s]

DigitChars == <<"0", "1", "2", "3", "4", "5", "6", "7", "8", "9">>

RECURSIVE StrNat(_)
StrNat(n) == IF n < 10 THEN DigitChars[n + 1]
             ELSE StrNat(n \div 10) \o DigitChars[(n % 10) + 1]

\* str(n) of an int
str(n) == IF n < 0 THEN "-" \o StrNat(-n) ELSE StrNat(n)

\* "{v}" in an f-string
Format(v) == IF v.t = "int" THEN str(v.n) ELSE v.s

\* "".join(cs): the str made of the characters cs
RECURSIVE Join(_)
Join(cs) == IF cs = <<>> THEN "" ELSE Head(cs) \o Join(Tail(cs))

IsDigit(c) == \E d \in 1..10 : DigitChars[d] = c

DigitValue(c) == (CHOOSE d \in 1..10 : DigitChars[d] = c) - 1

\* the strings int() converts: an optional sign and decimal digits
IsIntLiteral(cs) ==
  LET ds == IF cs # <<>> /\ Head(cs) \in {"+", "-"} THEN Tail(cs) ELSE cs
  IN  ds # <<>> /\ \A k \in 1..Len(ds) : IsDigit(ds[k])

RECURSIVE NatOfDigits(_)
NatOfDigits(ds) ==
  IF ds = <<>> THEN 0
  ELSE 10 * NatOfDigits(SubSeq(ds, 1, Len(ds) - 1)) + DigitValue(ds[Len(ds)])

\* int(cs) of a str that IsIntLiteral
int(cs) ==
  IF Head(cs) = "-" THEN 0 - NatOfDigits(Tail(cs))
  ELSE IF Head(cs) = "+" THEN NatOfDigits(Tail(cs))
  ELSE NatOfDigits(cs)

IsSpace(c) == c \in {" ", "\t", "\n", "\r", "\f"}

\* cs.strip()
strip(cs) ==
  LET keep == {k \in 1..Len(cs) : ~IsSpace(cs[k])}
  IN  IF keep = {} THEN <<>>
      ELSE SubSeq(cs, CHOOSE k \in keep : \A m \in keep : k <= m,
                      CHOOSE k \in keep : \A m \in keep : k >= m)

\* cs.splitlines() of a text whose line boundaries are "\n" or "\r"
RECURSIVE splitlines(_)
splitlines(cs) ==
  LET brk == {k \in 1..Len(cs) : cs[k] \in {"\n", "\r"}}
  IN  IF cs = <<>> THEN <<>>
      ELSE IF brk = {} THEN <<cs>>
      ELSE LET b == CHOOSE k \in brk : \A m \in brk : k <= m
           IN  <<SubSeq(cs, 1, b - 1)>> \o splitlines(SubSeq(cs, b + 1, Len(cs)))

\* cs[2:-2]
Slice2(cs) == SubSeq(cs, 3, Len(cs) - 2)

\* a dict with key k set to v
Put(d, k, v) == [x \in DOMAIN d \cup {k} |-> IF x = k THEN v ELSE d[x]]

EmptyDict == [x \in {} |-> 0]

Sp(n) == [k \in 1..n |-> " "]

NL == <<"\n">>

----------------------------------------------------------------------------
\* The declarations of the module.

_MEMORY_ERROR_NAMES ==
  <<"SUBPROCESS_MEMORY_ERROR", "CALDP_MEMORY_ERROR", "CONTAINER_MEMORY_ERROR", "OS_MEMORY_ERROR">>

Item(name, code) == [name |-> name, code |-> code]

\* the declarations with OS_MEMORY_ERROR renumbered out of the memory range
Declared_EXIT_CODES_Renumbered ==
  << Item("SUCCESS", 0),
     Item("GENERIC_ERROR", 1),
     Item("CMDLINE_ERROR", 2),
     Item("INPUT_TAR_FILE_ERROR", 21),
     Item("ASTROQUERY_ERROR", 22),
     Item("STAGE1_ERROR", 23),
     Item("STAGE2_ERROR", 24),
     Item("S3_UPLOAD_ERROR", 25),
     Item("S3_DOWNLOAD_ERROR", 26),
     Item("BESTREFS_ERROR", 27),
     Item("CREATE_PREVIEWS_ERROR", 28),
     Item("SUBPROCESS_MEMORY_ERROR", 31),
     Item("CALDP_MEMORY_ERROR", 32),
     Item("CONTAINER_MEMORY_ERROR", 33),
     Item("OS_MEMORY_ERROR", 35),
     Item("SVM_ERROR", 40),
     Item("MVM_ERROR", 41) >>

\* _EXIT_CODES = dict(...), as the source declares it
Declared_EXIT_CODES ==
  << Item("SUCCESS", 0),
     Item("GENERIC_ERROR", 1),
     Item("CMDLINE_ERROR", 2),
     Item("INPUT_TAR_FILE_ERROR", 21),
     Item("ASTROQUERY_ERROR", 22),
     Item("STAGE1_ERROR", 23),
     Item("STAGE2_ERROR", 24),
     Item("S3_UPLOAD_ERROR", 25),
     Item("S3_DOWNLOAD_ERROR", 26),
     Item("BESTREFS_ERROR", 27),
     Item("CREATE_PREVIEWS_ERROR", 28),
     Item("SUBPROCESS_MEMORY_ERROR", 31),
     Item("CALDP_MEMORY_ERROR", 32),
     Item("CONTAINER_MEMORY_ERROR", 33),
     Item("OS_MEMORY_ERROR", 34),
     Item("SVM_ERROR", 40),
     Item("MVM_ERROR", 41) >>

\* _NAME_EXPLANATIONS = dict(...), as the source declares it
Declared_NAME_EXPLANATIONS ==
  ( "SUCCESS" :> "Processing completed successfully." )
  @@ ( "GENERIC_ERROR" :> "An error with no specific CALDP handling occurred somewhere." )
  @@ ( "CMDLINE_ERROR" :> "The program command line invocation was incorrect." )
  @@ ( "INPUT_TAR_FILE_ERROR" :> "An error occurred locating or untarring the inputs tarball." )
  @@ ( "ASTROQUERY_ERROR" :> "An error occurred downloading astroqery: inputs" )
  @@ ( "STAGE1_ERROR" :> "An error occurred in this instrument's stage1 processing step. e.g. calxxx" )
  @@ ( "STAGE2_ERROR" :> "An error occurred in this instrument's stage2 processing step, e.g astrodrizzle" )
  @@ ( "SVM_ERROR" :> "An error occurred while running runsinglehap" )
  @@ ( "MVM_ERROR" :> "An error occurred while running runmultihap" )
  @@ ( "S3_UPLOAD_ERROR" :> "An error occurred uploading the outputs tarball to S3." )
  @@ ( "S3_DOWNLOAD_ERROR" :> "An error occurred downloading inputs from S3." )
  @@ ( "BESTREFS_ERROR" :> "An error occurred computing or downloading CRDS reference files." )
  @@ ( "CREATE_PREVIEWS_ERROR" :> "An error occurrred creating preview files for processed data." )
  @@ ( "SUBPROCESS_MEMORY_ERROR" :> "A Python MemoryError was detected by scanning the process.txt log." )
  @@ ( "CALDP_MEMORY_ERROR" :> "CALDP generated a Python MemoryError during processing or preview creation." )
  @@ ( "CONTAINER_MEMORY_ERROR" :> "The Batch/ECS container runtime killed the job due to memory limits." )
  @@ ( "OS_MEMORY_ERROR" :> "Python raised OSError(Cannot allocate memory...),  possibly fork failure." )

\* the lines of the text between the opening and the closing quotes
SignalTextLines ==
  <<
    \* #define SIGHUP          1       /* Hangup (POSIX).  */
    <<"#","d","e","f","i","n","e">> \o Sp(1) \o <<"S","I","G","H","U","P">> \o Sp(10) \o <<"1">> \o Sp(7) \o <<"/","*">> \o Sp(1) \o <<"H","a","n","g","u","p">> \o Sp(1) \o <<"(","P","O","S","I","X",")",".">> \o Sp(2) \o <<"*","/">>,
    \* #define SIGINT          2       /* Interrupt (ANSI).  */
    <<"#","d","e","f","i","n","e">> \o Sp(1) \o <<"S","I","G","I","N","T">> \o Sp(10) \o <<"2">> \o Sp(7) \o <<"/","*">> \o Sp(1) \o <<"I","n","t","e","r","r","u","p","t">> \o Sp(1) \o <<"(","A","N","S","I",")",".">> \o Sp(2) \o <<"*","/">>,
    \* #define SIGQUIT         3       /* Quit (POSIX).  */
    <<"#","d","e","f","i","n","e">> \o Sp(1) \o <<"S","I","G","Q","U","I","T">> \o Sp(9) \o <<"3">> \o Sp(7) \o <<"/","*">> \o Sp(1) \o <<"Q","u","i","t">> \o Sp(1) \o <<"(","P","O","S","I","X",")",".">> \o Sp(2) \o <<"*","/">>,
    \* #define SIGILL          4       /* Illegal instruction (ANSI).  */
    <<"#","d","e","f","i","n","e">> \o Sp(1) \o <<"S","I","G","I","L","L">> \o Sp(10) \o <<"4">> \o Sp(7) \o <<"/","*">> \o Sp(1) \o <<"I","l","l","e","g","a","l">> \o Sp(1) \o <<"i","n","s","t","r","u","c","t","i","o","n">> \o Sp(1) \o <<"(","A","N","S","I",")",".">> \o Sp(2) \o <<"*","/">>,
    \* #define SIGTRAP         5       /* Trace trap (POSIX).  */
    <<"#","d","e","f","i","n","e">> \o Sp(1) \o <<"S","I","G","T","R","A","P">> \o Sp(9) \o <<"5">> \o Sp(7) \o <<"/","*">> \o Sp(1) \o <<"T","r","a","c","e">> \o Sp(1) \o <<"t","r","a","p">> \o Sp(1) \o <<"(","P","O","S","I","X",")",".">> \o Sp(2) \o <<"*","/">>,
    \* #define SIGABRT         6       /* Abort (ANSI).  */
    <<"#","d","e","f","i","n","e">> \o Sp(1) \o <<"S","I","G","A","B","R","T">> \o Sp(9) \o <<"6">> \o Sp(7) \o <<"/","*">> \o Sp(1) \o <<"A","b","o","r","t">> \o Sp(1) \o <<"(","A","N","S","I",")",".">> \o Sp(2) \o <<"*","/">>,
    \* #define SIGIOT          6       /* IOT trap (4.2 BSD).  */
    <<"#","d","e","f","i","n","e">> \o Sp(1) \o <<"S","I","G","I","O","T">> \o Sp(10) \o <<"6">> \o Sp(7) \o <<"/","*">> \o Sp(1) \o <<"I","O","T">> \o Sp(1) \o <<"t","r","a","p">> \o Sp(1) \o <<"(","4",".","2">> \o Sp(1) \o <<"B","S","D",")",".">> \o Sp(2) \o <<"*","/">>,
    \* #define SIGBUS          7       /* BUS error (4.2 BSD).  */
    <<"#","d","e","f","i","n","e">> \o Sp(1) \o <<"S","I","G","B","U","S">> \o Sp(10) \o <<"7">> \o Sp(7) \o <<"/","*">> \o Sp(1) \o <<"B","U","S">> \o Sp(1) \o <<"e","r","r","o","r">> \o Sp(1) \o <<"(","4",".","2">> \o Sp(1) \o <<"B","S","D",")",".">> \o Sp(2) \o <<"*","/">>,
    \* #define SIGFPE          8       /* Floating-point exception (ANSI).  */
    <<"#","d","e","f","i","n","e">> \o Sp(1) \o <<"S","I","G","F","P","E">> \o Sp(10) \o <<"8">> \o Sp(7) \o <<"/","*">> \o Sp(1) \o <<"F","l","o","a","t","i","n","g","-","p","o","i","n","t">> \o Sp(1) \o <<"e","x","c","e","p","t","i","o","n">> \o Sp(1) \o <<"(","A","N","S","I",")",".">> \o Sp(2) \o <<"*","/">>,
    \* #define SIGKILL         9       /* Kill, unblockable (POSIX).  */
    <<"#","d","e","f","i","n","e">> \o Sp(1) \o <<"S","I","G","K","I","L","L">> \o Sp(9) \o <<"9">> \o Sp(7) \o <<"/","*">> \o Sp(1) \o <<"K","i","l","l",",">> \o Sp(1) \o <<"u","n","b","l","o","c","k","a","b","l","e">> \o Sp(1) \o <<"(","P","O","S","I","X",")",".">> \o Sp(2) \o <<"*","/">>,
    \* #define SIGUSR1         10      /* User-defined signal 1 (POSIX).  */
    <<"#","d","e","f","i","n","e">> \o Sp(1) \o <<"S","I","G","U","S","R","1">> \o Sp(9) \o <<"1","0">> \o Sp(6) \o <<"/","*">> \o Sp(1) \o <<"U","s","e","r","-","d","e","f","i","n","e","d">> \o Sp(1) \o <<"s","i","g","n","a","l">> \o Sp(1) \o <<"1">> \o Sp(1) \o <<"(","P","O","S","I","X",")",".">> \o Sp(2) \o <<"*","/">>,
    \* #define SIGSEGV         11      /* Segmentation violation (ANSI).  */
    <<"#","d","e","f","i","n","e">> \o Sp(1) \o <<"S","I","G","S","E","G","V">> \o Sp(9) \o <<"1","1">> \o Sp(6) \o <<"/","*">> \o Sp(1) \o <<"S","e","g","m","e","n","t","a","t","i","o","n">> \o Sp(1) \o <<"v","i","o","l","a","t","i","o","n">> \o Sp(1) \o <<"(","A","N","S","I",")",".">> \o Sp(2) \o <<"*","/">>,
    \* #define SIGUSR2         12      /* User-defined signal 2 (POSIX).  */
    <<"#","d","e","f","i","n","e">> \o Sp(1) \o <<"S","I","G","U","S","R","2">> \o Sp(9) \o <<"1","2">> \o Sp(6) \o <<"/","*">> \o Sp(1) \o <<"U","s","e","r","-","d","e","f","i","n","e","d">> \o Sp(1) \o <<"s","i","g","n","a","l">> \o Sp(1) \o <<"2">> \o Sp(1) \o <<"(","P","O","S","I","X",")",".">> \o Sp(2) \o <<"*","/">>,
    \* #define SIGPIPE         13      /* Broken pipe (POSIX).  */
    <<"#","d","e","f","i","n","e">> \o Sp(1) \o <<"S","I","G","P","I","P","E">> \o Sp(9) \o <<"1","3">> \o Sp(6) \o <<"/","*">> \o Sp(1) \o <<"B","r","o","k","e","n">> \o Sp(1) \o <<"p","i","p","e">> \o Sp(1) \o <<"(","P","O","S","I","X",")",".">> \o Sp(2) \o <<"*","/">>,
    \* #define SIGALRM         14      /* Alarm clock (POSIX).  */
    <<"#","d","e","f","i","n","e">> \o Sp(1) \o <<"S","I","G","A","L","R","M">> \o Sp(9) \o <<"1","4">> \o Sp(6) \o <<"/","*">> \o Sp(1) \o <<"A","l","a","r","m">> \o Sp(1) \o <<"c","l","o","c","k">> \o Sp(1) \o <<"(","P","O","S","I","X",")",".">> \o Sp(2) \o <<"*","/">>,
    \* #define SIGTERM         15      /* Termination (ANSI).  */
    <<"#","d","e","f","i","n","e">> \o Sp(1) \o <<"S","I","G","T","E","R","M">> \o Sp(9) \o <<"1","5">> \o Sp(6) \o <<"/","*">> \o Sp(1) \o <<"T","e","r","m","i","n","a","t","i","o","n">> \o Sp(1) \o <<"(","A","N","S","I",")",".">> \o Sp(2) \o <<"*","/">>,
    \* #define SIGSTKFLT       16      /* Stack fault.  */
    <<"#","d","e","f","i","n","e">> \o Sp(1) \o <<"S","I","G","S","T","K","F","L","T">> \o Sp(7) \o <<"1","6">> \o Sp(6) \o <<"/","*">> \o Sp(1) \o <<"S","t","a","c","k">> \o Sp(1) \o <<"f","a","u","l","t",".">> \o Sp(2) \o <<"*","/">>,
    \* #define SIGCHLD         17      /* Child status has changed (POSIX).  */
    <<"#","d","e","f","i","n","e">> \o Sp(1) \o <<"S","I","G","C","H","L","D">> \o Sp(9) \o <<"1","7">> \o Sp(6) \o <<"/","*">> \o Sp(1) \o <<"C","h","i","l","d">> \o Sp(1) \o <<"s","t","a","t","u","s">> \o Sp(1) \o <<"h","a","s">> \o Sp(1) \o <<"c","h","a","n","g","e","d">> \o Sp(1) \o <<"(","P","O","S","I","X",")",".">> \o Sp(2) \o <<"*","/">>,
    \* #define SIGCONT         18      /* Continue (POSIX).  */
    <<"#","d","e","f","i","n","e">> \o Sp(1) \o <<"S","I","G","C","O","N","T">> \o Sp(9) \o <<"1","8">> \o Sp(6) \o <<"/","*">> \o Sp(1) \o <<"C","o","n","t","i","n","u","e">> \o Sp(1) \o <<"(","P","O","S","I","X",")",".">> \o Sp(2) \o <<"*","/">>,
    \* #define SIGSTOP         19      /* Stop, unblockable (POSIX).  */
    <<"#","d","e","f","i","n","e">> \o Sp(1) \o <<"S","I","G","S","T","O","P">> \o Sp(9) \o <<"1","9">> \o Sp(6) \o <<"/","*">> \o Sp(1) \o <<"S","t","o","p",",">> \o Sp(1) \o <<"u","n","b","l","o","c","k","a","b","l","e">> \o Sp(1) \o <<"(","P","O","S","I","X",")",".">> \o Sp(2) \o <<"*","/">>,
    \* #define SIGTSTP         20      /* Keyboard stop (POSIX).  */
    <<"#","d","e","f","i","n","e">> \o Sp(1) \o <<"S","I","G","T","S","T","P">> \o Sp(9) \o <<"2","0">> \o Sp(6) \o <<"/","*">> \o Sp(1) \o <<"K","e","y","b","o","a","r","d">> \o Sp(1) \o <<"s","t","o","p">> \o Sp(1) \o <<"(","P","O","S","I","X",")",".">> \o Sp(2) \o <<"*","/">>,
    \* #define SIGTTIN         21      /* Background read from tty (POSIX).  */
    <<"#","d","e","f","i","n","e">> \o Sp(1) \o <<"S","I","G","T","T","I","N">> \o Sp(9) \o <<"2","1">> \o Sp(6) \o <<"/","*">> \o Sp(1) \o <<"B","a","c","k","g","r","o","u","n","d">> \o Sp(1) \o <<"r","e","a","d">> \o Sp(1) \o <<"f","r","o","m">> \o Sp(1) \o <<"t","t","y">> \o Sp(1) \o <<"(","P","O","S","I","X",")",".">> \o Sp(2) \o <<"*","/">>,
    \* #define SIGTTOU         22      /* Background write to tty (POSIX).  */
    <<"#","d","e","f","i","n","e">> \o Sp(1) \o <<"S","I","G","T","T","O","U">> \o Sp(9) \o <<"2","2">> \o Sp(6) \o <<"/","*">> \o Sp(1) \o <<"B","a","c","k","g","r","o","u","n","d">> \o Sp(1) \o <<"w","r","i","t","e">> \o Sp(1) \o <<"t","o">> \o Sp(1) \o <<"t","t","y">> \o Sp(1) \o <<"(","P","O","S","I","X",")",".">> \o Sp(2) \o <<"*","/">>,
    \* #define SIGURG          23      /* Urgent condition on socket (4.2 BSD).  */
    <<"#","d","e","f","i","n","e">> \o Sp(1) \o <<"S","I","G","U","R","G">> \o Sp(10) \o <<"2","3">> \o Sp(6) \o <<"/","*">> \o Sp(1) \o <<"U","r","g","e","n","t">> \o Sp(1) \o <<"c","o","n","d","i","t","i","o","n">> \o Sp(1) \o <<"o","n">> \o Sp(1) \o <<"s","o","c","k","e","t">> \o Sp(1) \o <<"(","4",".","2">> \o Sp(1) \o <<"B","S","D",")",".">> \o Sp(2) \o <<"*","/">>,
    \* #define SIGXCPU         24      /* CPU limit exceeded (4.2 BSD).  */
    <<"#","d","e","f","i","n","e">> \o Sp(1) \o <<"S","I","G","X","C","P","U">> \o Sp(9) \o <<"2","4">> \o Sp(6) \o <<"/","*">> \o Sp(1) \o <<"C","P","U">> \o Sp(1) \o <<"l","i","m","i","t">> \o Sp(1) \o <<"e","x","c","e","e","d","e","d">> \o Sp(1) \o <<"(","4",".","2">> \o Sp(1) \o <<"B","S","D",")",".">> \o Sp(2) \o <<"*","/">>,
    \* #define SIGXFSZ         25      /* File size limit exceeded (4.2 BSD).  */
    <<"#","d","e","f","i","n","e">> \o Sp(1) \o <<"S","I","G","X","F","S","Z">> \o Sp(9) \o <<"2","5">> \o Sp(6) \o <<"/","*">> \o Sp(1) \o <<"F","i","l","e">> \o Sp(1) \o <<"s","i","z","e">> \o Sp(1) \o <<"l","i","m","i","t">> \o Sp(1) \o <<"e","x","c","e","e","d","e","d">> \o Sp(1) \o <<"(","4",".","2">> \o Sp(1) \o <<"B","S","D",")",".">> \o Sp(2) \o <<"*","/">>,
    \* #define SIGVTALRM       26      /* Virtual alarm clock (4.2 BSD).  */
    <<"#","d","e","f","i","n","e">> \o Sp(1) \o <<"S","I","G","V","T","A","L","R","M">> \o Sp(7) \o <<"2","6">> \o Sp(6) \o <<"/","*">> \o Sp(1) \o <<"V","i","r","t","u","a","l">> \o Sp(1) \o <<"a","l","a","r","m">> \o Sp(1) \o <<"c","l","o","c","k">> \o Sp(1) \o <<"(","4",".","2">> \o Sp(1) \o <<"B","S","D",")",".">> \o Sp(2) \o <<"*","/">>,
    \* #define SIGPROF         27      /* Profiling alarm clock (4.2 BSD).  */
    <<"#","d","e","f","i","n","e">> \o Sp(1) \o <<"S","I","G","P","R","O","F">> \o Sp(9) \o <<"2","7">> \o Sp(6) \o <<"/","*">> \o Sp(1) \o <<"P","r","o","f","i","l","i","n","g">> \o Sp(1) \o <<"a","l","a","r","m">> \o Sp(1) \o <<"c","l","o","c","k">> \o Sp(1) \o <<"(","4",".","2">> \o Sp(1) \o <<"B","S","D",")",".">> \o Sp(2) \o <<"*","/">>,
    \* #define SIGWINCH        28      /* Window size change (4.3 BSD, Sun).  */
    <<"#","d","e","f","i","n","e">> \o Sp(1) \o <<"S","I","G","W","I","N","C","H">> \o Sp(8) \o <<"2","8">> \o Sp(6) \o <<"/","*">> \o Sp(1) \o <<"W","i","n","d","o","w">> \o Sp(1) \o <<"s","i","z","e">> \o Sp(1) \o <<"c","h","a","n","g","e">> \o Sp(1) \o <<"(","4",".","3">> \o Sp(1) \o <<"B","S","D",",">> \o Sp(1) \o <<"S","u","n",")",".">> \o Sp(2) \o <<"*","/">>,
    \* #define SIGIO           29      /* I/O now possible (4.2 BSD).  */
    <<"#","d","e","f","i","n","e">> \o Sp(1) \o <<"S","I","G","I","O">> \o Sp(11) \o <<"2","9">> \o Sp(6) \o <<"/","*">> \o Sp(1) \o <<"I","/","O">> \o Sp(1) \o <<"n","o","w">> \o Sp(1) \o <<"p","o","s","s","i","b","l","e">> \o Sp(1) \o <<"(","4",".","2">> \o Sp(1) \o <<"B","S","D",")",".">> \o Sp(2) \o <<"*","/">>,
    \* #define SIGPWR          30      /* Power failure restart (System V).  */
    <<"#","d","e","f","i","n","e">> \o Sp(1) \o <<"S","I","G","P","W","R">> \o Sp(10) \o <<"3","0">> \o Sp(6) \o <<"/","*">> \o Sp(1) \o <<"P","o","w","e","r">> \o Sp(1) \o <<"f","a","i","l","u","r","e">> \o Sp(1) \o <<"r","e","s","t","a","r","t">> \o Sp(1) \o <<"(","S","y","s","t","e","m">> \o Sp(1) \o <<"V",")",".">> \o Sp(2) \o <<"*","/">>,
    \* #define SIGSYS          31      /* Bad system call.  */
    <<"#","d","e","f","i","n","e">> \o Sp(1) \o <<"S","I","G","S","Y","S">> \o Sp(10) \o <<"3","1">> \o Sp(6) \o <<"/","*">> \o Sp(1) \o <<"B","a","d">> \o Sp(1) \o <<"s","y","s","t","e","m">> \o Sp(1) \o <<"c","a","l","l",".">> \o Sp(2) \o <<"*","/">>
  >>

\* each line followed by its newline
RECURSIVE Unlines(_)
Unlines(ls) == IF ls = <<>> THEN <<>> ELSE Head(ls) \o NL \o Unlines(Tail(ls))

\* the text opens with a newline, right after the opening quotes
_LINUX_SIGNALS_TEXT == NL \o Unlines(SignalTextLines)

\* _LINUX_SIGNALS_TEXT.strip().splitlines()
SignalLines == splitlines(strip(_LINUX_SIGNALS_TEXT))

----------------------------------------------------------------------------
\* re.match(r"^\S+\s+(\S+)\s+(\S+)\s+(.*)$", line)

\* The last position of the longest run, starting at p, of characters that are
\* white space (sp) or are not (~sp); p - 1 when the run is empty.
RECURSIVE RunEnd(_, _, _)
RunEnd(cs, p, sp) ==
  IF p <= Len(cs) /\ IsSpace(cs[p]) = sp THEN RunEnd(cs, p + 1, sp) ELSE p - 1

\* \S+ and \s+ alternate over complementary classes, so each must take a whole
\* run and the greedy match is the only one.
match(line) ==
  LET e1 == RunEnd(line, 1, FALSE)
      e2 == RunEnd(line, e1 + 1, TRUE)
      e3 == RunEnd(line, e2 + 1, FALSE)
      e4 == RunEnd(line, e3 + 1, TRUE)
      e5 == RunEnd(line, e4 + 1, FALSE)
      e6 == RunEnd(line, e5 + 1, TRUE)
  IN  [ ok |-> /\ e1 >= 1 /\ e2 > e1 /\ e3 > e2 /\ e4 > e3 /\ e5 > e4 /\ e6 > e5
               /\ \A k \in (e6 + 1)..Len(line) : line[k] # "\n",
        group1 |-> SubSeq(line, e2 + 1, e3),
        group2 |-> SubSeq(line, e4 + 1, e5),
        group3 |-> SubSeq(line, e6 + 1, Len(line)) ]

----------------------------------------------------------------------------
\* Outcomes of a call: a returned str, a returned bool, or a raised exception.

Returns(s) == [kind |-> "str", s |-> s, b |-> FALSE]
ReturnsBool(b) == [kind |-> "bool", s |-> "", b |-> b]
\* an exception of type e, raised by the lookup "at"
Raises(e, at) == [kind |-> e, s |-> at, b |-> FALSE]

NoCall == [fn |-> "none", arg |-> PyInt(0), out |-> ReturnsBool(FALSE)]

----------------------------------------------------------------------------
\* The module's functions, as they read the module's dictionaries.

\* explain with the name branch leaving exit_code as the caller gave it
explain_NameKeepsKey(exit_code) ==
  IF exit_code \in DOMAIN _CODE_TO_NAME THEN
    LET name == _CODE_TO_NAME[exit_code]
    IN  IF name \notin DOMAIN _NAME_EXPLANATIONS
        THEN Raises("KeyError", "_NAME_EXPLANATIONS[name]")
        ELSE Returns("EXIT - " \o name \o "[" \o Format(exit_code) \o "]: "
                     \o _NAME_EXPLANATIONS[name])
  ELSE IF exit_code.t = "str" /\ exit_code.s \in DOMAIN _NAME_EXPLANATIONS THEN
    LET name == exit_code.s
    IN  Returns("EXIT - " \o name \o "[" \o Format(exit_code) \o "]: "
                \o _NAME_EXPLANATIONS[name])
  ELSE Returns("EXIT - unhandled exit code: " \o Format(exit_code))

\* explain with a plain dictionary lookup in place of the fallback
explain_Strict(exit_code) ==
  IF exit_code \in DOMAIN _CODE_TO_NAME THEN
    LET name == _CODE_TO_NAME[exit_code]
    IN  IF name \notin DOMAIN _NAME_EXPLANATIONS
        THEN Raises("KeyError", "_NAME_EXPLANATIONS[name]")
        ELSE Returns("EXIT - " \o name \o "[" \o Format(exit_code) \o "]: "
                     \o _NAME_EXPLANATIONS[name])
  ELSE IF exit_code.t = "str" /\ exit_code.s \in DOMAIN _NAME_EXPLANATIONS THEN
    LET name == exit_code.s
    IN  IF name \notin DOMAIN globals THEN Raises("KeyError", "globals()[name]")
        ELSE Returns("EXIT - " \o name \o "[" \o Format(PyInt(globals[name])) \o "]: "
                     \o _NAME_EXPLANATIONS[name])
  ELSE Raises("KeyError", "_NAME_EXPLANATIONS[exit_code]")

explain(exit_code) ==
  IF exit_code \in DOMAIN _CODE_TO_NAME THEN
    LET name == _CODE_TO_NAME[exit_code]
    IN  IF name \notin DOMAIN _NAME_EXPLANATIONS
        THEN Raises("KeyError", "_NAME_EXPLANATIONS[name]")
        ELSE Returns("EXIT - " \o name \o "[" \o Format(exit_code) \o "]: "
                     \o _NAME_EXPLANATIONS[name])
  ELSE IF exit_code.t = "str" /\ exit_code.s \in DOMAIN _NAME_EXPLANATIONS THEN
    LET name == exit_code.s
    IN  IF name \notin DOMAIN globals THEN Raises("KeyError", "globals()[name]")
        ELSE Returns("EXIT - " \o name \o "[" \o Format(PyInt(globals[name])) \o "]: "
                     \o _NAME_EXPLANATIONS[name])
  ELSE Returns("EXIT - unhandled exit code: " \o Format(exit_code))

\* is_memory_error testing the names only
is_memory_error_NamesOnly(exit_code) ==
  ReturnsBool(\E k \in 1..Len(_MEMORY_ERROR_NAMES) : exit_code = PyStr(_MEMORY_ERROR_NAMES[k]))

\* is_memory_error resolving its argument through _CODE_TO_NAME first
is_memory_error_Resolving(exit_code) ==
  ReturnsBool(
    \E k \in 1..Len(_MEMORY_ERROR_NAMES) :
      _MEMORY_ERROR_NAMES[k] = (IF exit_code \in DOMAIN _CODE_TO_NAME
                                THEN _CODE_TO_NAME[exit_code] ELSE exit_code.s))

is_memory_error(exit_code) ==
  IF \E k \in 1..Len(_MEMORY_ERROR_NAMES) : _MEMORY_ERROR_NAMES[k] \notin DOMAIN globals
  THEN Raises("KeyError", "globals()[name]")
  ELSE ReturnsBool(
         \/ \E k \in 1..Len(_MEMORY_ERROR_NAMES) :
              exit_code = PyInt(globals[_MEMORY_ERROR_NAMES[k]])
         \/ \E k \in 1..Len(_MEMORY_ERROR_NAMES) :
              exit_code = PyStr(_MEMORY_ERROR_NAMES[k]))

\* explain_signal with a fallback string in place of the failing lookup
explain_signal_Soft(signum) ==
  IF signum.t = "int" /\ signum.n \in DOMAIN SIGNUM_EXPLANATION
  THEN Returns("EXIT - " \o SIGNUM_EXPLANATION[signum.n])
  ELSE Returns("EXIT - unhandled signal: " \o Format(signum))

explain_signal(signum) ==
  IF signum.t = "int" /\ signum.n \in DOMAIN SIGNUM_EXPLANATION
  THEN Returns("EXIT - " \o SIGNUM_EXPLANATION[signum.n])
  ELSE Raises("KeyError", "SIGNUM_EXPLANATION[signum]")

----------------------------------------------------------------------------
\* Module initialization.

\* the declaration tables of the source
InitDeclared ==
  /\ _EXIT_CODES = Declared_EXIT_CODES
  /\ _NAME_EXPLANATIONS = Declared_NAME_EXPLANATIONS

\* the state in which the module's top-level code reaches the registry loop
InitRest ==
  /\ pc = "registry_loop"
  /\ _CODE_TO_NAME = EmptyDict
  /\ globals = EmptyDict
  /\ i = 1
  /\ SIGNUM_EXPLANATION = EmptyDict
  /\ lineno = 1
  /\ last = NoCall

Init == InitDeclared /\ InitRest

\* the registry loop without  _CODE_TO_NAME[str(code)] = name
RegistryLoopStep_NoStrKey ==
  /\ pc = "registry_loop"
  /\ i <= Len(_EXIT_CODES)
  /\ LET name == _EXIT_CODES[i].name
         code == _EXIT_CODES[i].code
     IN  /\ globals' = Put(globals, name, code)
         /\ _CODE_TO_NAME' = Put(_CODE_TO_NAME, PyInt(code), name)
         /\ IF name \in DOMAIN _NAME_EXPLANATIONS
            THEN pc' = pc /\ i' = i + 1
            ELSE pc' = "AssertionError" /\ i' = i
  /\ UNCHANGED <<_EXIT_CODES, _NAME_EXPLANATIONS, SIGNUM_EXPLANATION, lineno, last>>

\* the registry loop without  assert name in _NAME_EXPLANATIONS
RegistryLoopStep_NoAssert ==
  /\ pc = "registry_loop"
  /\ i <= Len(_EXIT_CODES)
  /\ LET name == _EXIT_CODES[i].name
         code == _EXIT_CODES[i].code
     IN  /\ globals' = Put(globals, name, code)
         /\ _CODE_TO_NAME' = Put(Put(_CODE_TO_NAME, PyInt(code), name), PyStr(str(code)), name)
         /\ pc' = pc
         /\ i' = i + 1
  /\ UNCHANGED <<_EXIT_CODES, _NAME_EXPLANATIONS, SIGNUM_EXPLANATION, lineno, last>>

\* One iteration of  for (name, code) in _EXIT_CODES.items()
RegistryLoopStep ==
  /\ pc = "registry_loop"
  /\ i <= Len(_EXIT_CODES)
  /\ LET name == _EXIT_CODES[i].name
         code == _EXIT_CODES[i].code
     IN  /\ globals' = Put(globals, name, code)
         /\ _CODE_TO_NAME' = Put(Put(_CODE_TO_NAME, PyInt(code), name), PyStr(str(code)), name)
         /\ IF name \in DOMAIN _NAME_EXPLANATIONS
            THEN pc' = pc /\ i' = i + 1
            ELSE pc' = "AssertionError" /\ i' = i
  /\ UNCHANGED <<_EXIT_CODES, _NAME_EXPLANATIONS, SIGNUM_EXPLANATION, lineno, last>>

\* The registry loop is exhausted; SIGNUM_EXPLANATION = {} and the signal loop starts
RegistryLoopExit ==
  /\ pc = "registry_loop"
  /\ i > Len(_EXIT_CODES)
  /\ SIGNUM_EXPLANATION' = EmptyDict
  /\ lineno' = 1
  /\ pc' = IF SignalLines = <<>> THEN "done" ELSE "signal_loop"
  /\ UNCHANGED <<_EXIT_CODES, _NAME_EXPLANATIONS, _CODE_TO_NAME, globals, i, last>>

\* One iteration of  for line in _LINUX_SIGNALS_TEXT.strip().splitlines()
SignalLoopStep ==
  /\ pc = "signal_loop"
  /\ lineno <= Len(SignalLines)
  /\ LET m == match(SignalLines[lineno])
     IN  IF ~m.ok
         THEN pc' = "AttributeError" /\ UNCHANGED <<SIGNUM_EXPLANATION, lineno>>
         ELSE IF ~IsIntLiteral(m.group2)
         THEN pc' = "ValueError" /\ UNCHANGED <<SIGNUM_EXPLANATION, lineno>>
         ELSE LET sigid == Join(m.group1)
                  signum == int(m.group2)
                  sigtext == Join(strip(Slice2(m.group3)))
              IN  /\ SIGNUM_EXPLANATION' =
                       Put(SIGNUM_EXPLANATION, signum,
                           "Killed by UNIX signal " \o sigid \o "[" \o str(signum)
                           \o "]: '" \o sigtext \o "'")
                  /\ lineno' = lineno + 1
                  /\ pc' = IF lineno = Len(SignalLines) THEN "done" ELSE pc
  /\ UNCHANGED <<_EXIT_CODES, _NAME_EXPLANATIONS, _CODE_TO_NAME, globals, i, last>>

----------------------------------------------------------------------------
\* Calls of the module's functions, once the module is imported.

MaxCode(t) == IF t = <<>> THEN 0
              ELSE CHOOSE c \in {t[k].code : k \in 1..Len(t)} :
                     \A k \in 1..Len(t) : t[k].code <= c

DeclaredNames == {_EXIT_CODES[k].name : k \in 1..Len(_EXIT_CODES)}
DeclaredCodes == {_EXIT_CODES[k].code : k \in 1..Len(_EXIT_CODES)}

\* the ints the functions are called with
ProbeInts == (-MaxNeg .. MaxCode(_EXIT_CODES) + MaxBeyond) \cup {99, 999}

\* strings that are neither names nor the decimal form of a probed int
OtherStrs == {"", "success", "SUCCESS ", "031", " 31", "31.0", "os_memory_error", "SIGFPE"}

ProbeStrs ==
  {str(n) : n \in ProbeInts} \cup DeclaredNames \cup DOMAIN _NAME_EXPLANATIONS
  \cup {_MEMORY_ERROR_NAMES[k] : k \in 1..Len(_MEMORY_ERROR_NAMES)} \cup OtherStrs

Probes == {PyInt(n) : n \in ProbeInts} \cup {PyStr(s) : s \in ProbeStrs}

SignalProbes ==
  {PyInt(n) : n \in (-MaxNeg .. MaxSignalProbe) \cup {99}}
  \cup {PyStr(s) : s \in {"8", "SIGFPE"}}

Call(fn, arg, out) ==
  /\ pc = "done"
  /\ last' = [fn |-> fn, arg |-> arg, out |-> out]
  /\ UNCHANGED <<pc, _EXIT_CODES, _NAME_EXPLANATIONS, _CODE_TO_NAME, globals, i,
                 SIGNUM_EXPLANATION, lineno>>

\* explain caching the name it resolved under the key it was called with
CallExplain_Caching ==
  \E x \in Probes :
    /\ pc = "done"
    /\ last' = [fn |-> "explain", arg |-> x, out |-> explain(x)]
    /\ _CODE_TO_NAME' =
         IF x \notin DOMAIN _CODE_TO_NAME /\ x.t = "str" /\ x.s \in DOMAIN _NAME_EXPLANATIONS
         THEN Put(_CODE_TO_NAME, x, x.s)
         ELSE _CODE_TO_NAME
    /\ UNCHANGED <<pc, _EXIT_CODES, _NAME_EXPLANATIONS, globals, i, SIGNUM_EXPLANATION, lineno>>

CallExplain == \E x \in Probes : Call("explain", x, explain(x))

CallIsMemoryError == \E x \in Probes : Call("is_memory_error", x, is_memory_error(x))

CallExplainSignal == \E x \in SignalProbes : Call("explain_signal", x, explain_signal(x))

Next ==
  \/ RegistryLoopStep
  \/ RegistryLoopExit
  \/ SignalLoopStep
  \/ CallExplain
  \/ CallIsMemoryError
  \/ CallExplainSignal

Spec == Init /\ [][Next]_vars

----------------------------------------------------------------------------
\* Initialization over hypothetical declaration tables: what the registry loop
\* does when the declarations are not the consistent ones of the source.

NamePool == {"SUCCESS", "GENERIC_ERROR", "CMDLINE_ERROR"}

DeclarationTables ==
  UNION { { t \in [1..n -> [name : NamePool, code : 0..MaxDeclaredCode]] :
              \A a, b \in 1..n : a # b => t[a].name # t[b].name } : n \in 0..MaxDeclared }

ExplanationTables ==
  { [n \in S |-> Declared_NAME_EXPLANATIONS[n]] : S \in SUBSET NamePool }

InitBuild ==
  /\ _EXIT_CODES \in DeclarationTables
  /\ _NAME_EXPLANATIONS \in ExplanationTables
  /\ InitRest

SpecBuild == InitBuild /\ [][Next]_vars

----------------------------------------------------------------------------
\* Properties.

MemoryErrorNames == {_MEMORY_ERROR_NAMES[k] : k \in 1..Len(_MEMORY_ERROR_NAMES)}

\* the registry loop has run to its end
RegistryBuilt == pc \in {"signal_loop", "done"}

\* the keys explain resolves to a registry entry, by the declarations
IsDeclaredCode(x) == x.t = "int" /\ x.n \in DeclaredCodes
IsDeclaredCodeStr(x) == x.t = "str" /\ \E c \in DeclaredCodes : x.s = str(c)
IsDeclaredName(x) == x.t = "str" /\ x.s \in DeclaredNames

\* the line "EXIT - <name>[<code>]: <explanation of name>"
ExitLine(name, code) ==
  "EXIT - " \o name \o "[" \o str(code) \o "]: " \o Declared_NAME_EXPLANATIONS[name]

\* C1: for every declared (name, value) pair, explain(value), explain(str(value))
\* and explain(name) all return "EXIT - <name>[<value>]: <explanation of name>",
\* with the value in decimal; a call of explain with one of these keys returned it.
C1_ExplainFormsAgree ==
  pc = "done" =>
    /\ \A k \in 1..Len(_EXIT_CODES) :
         LET name == _EXIT_CODES[k].name
             code == _EXIT_CODES[k].code
         IN  /\ explain(PyInt(code)) = Returns(ExitLine(name, code))
             /\ explain(PyStr(str(code))) = Returns(ExitLine(name, code))
             /\ explain(PyStr(name)) = Returns(ExitLine(name, code))
             /\ last.fn = "explain" /\ last.arg \in {PyInt(code), PyStr(str(code)), PyStr(name)}
                  => last.out = Returns(ExitLine(name, code))
    /\ explain(PyInt(31)) = Returns("EXIT - SUBPROCESS_MEMORY_ERROR[31]: A Python MemoryError was detected by scanning the process.txt log.")
    /\ explain(PyStr("SUCCESS")) = Returns("EXIT - SUCCESS[0]: Processing completed successfully.")

C1_Witness ==
  /\ last.fn = "explain"
  /\ last.arg = PyStr("OS_MEMORY_ERROR")
  /\ last.out = Returns("EXIT - OS_MEMORY_ERROR[34]: Python raised OSError(Cannot allocate memory...),  possibly fork failure.")

\* C2: for every int or str that is neither a declared value, nor the decimal
\* string of one, nor exactly a declared name, explain returns
\* "EXIT - unhandled exit code: <input>"; explain raises for no int or str.
C2_ExplainFallback ==
  pc = "done" =>
    /\ \A x \in Probes :
         /\ explain(x).kind = "str"
         /\ ~(IsDeclaredCode(x) \/ IsDeclaredCodeStr(x) \/ IsDeclaredName(x))
              => explain(x) = Returns("EXIT - unhandled exit code: " \o Format(x))
    /\ explain(PyInt(999)) = Returns("EXIT - unhandled exit code: 999")
    /\ last.fn = "explain" => last.out.kind = "str"

C2_Witness ==
  /\ last.fn = "explain"
  /\ last.arg = PyStr("success")
  /\ last.out = Returns("EXIT - unhandled exit code: success")

\* C3: is_memory_error(x) is true exactly when x is one of the ints 31, 32, 33, 34
\* or one of the four memory-error names; it is false, with no error, for every
\* other int or str.
C3_MemoryErrorExactSet ==
  pc = "done" =>
    /\ \A x \in Probes :
         is_memory_error(x) =
           ReturnsBool(\/ x.t = "int" /\ x.n \in 31..34
                       \/ x.t = "str" /\ x.s \in {"SUBPROCESS_MEMORY_ERROR", "CALDP_MEMORY_ERROR",
                                                  "CONTAINER_MEMORY_ERROR", "OS_MEMORY_ERROR"})
    /\ last.fn = "is_memory_error" => last.out.kind = "bool"

C3_Witness ==
  /\ last.fn = "is_memory_error"
  /\ last.arg = PyInt(33)
  /\ last.out = ReturnsBool(TRUE)

\* The definition lines of the signum.h text, read by eye: name, number, comment.
SignalDefinitions ==
  <<
     [sigid |-> "SIGHUP", signum |-> 1, sigtext |-> "Hangup (POSIX)."],
     [sigid |-> "SIGINT", signum |-> 2, sigtext |-> "Interrupt (ANSI)."],
     [sigid |-> "SIGQUIT", signum |-> 3, sigtext |-> "Quit (POSIX)."],
     [sigid |-> "SIGILL", signum |-> 4, sigtext |-> "Illegal instruction (ANSI)."],
     [sigid |-> "SIGTRAP", signum |-> 5, sigtext |-> "Trace trap (POSIX)."],
     [sigid |-> "SIGABRT", signum |-> 6, sigtext |-> "Abort (ANSI)."],
     [sigid |-> "SIGIOT", signum |-> 6, sigtext |-> "IOT trap (4.2 BSD)."],
     [sigid |-> "SIGBUS", signum |-> 7, sigtext |-> "BUS error (4.2 BSD)."],
     [sigid |-> "SIGFPE", signum |-> 8, sigtext |-> "Floating-point exception (ANSI)."],
     [sigid |-> "SIGKILL", signum |-> 9, sigtext |-> "Kill, unblockable (POSIX)."],
     [sigid |-> "SIGUSR1", signum |-> 10, sigtext |-> "User-defined signal 1 (POSIX)."],
     [sigid |-> "SIGSEGV", signum |-> 11, sigtext |-> "Segmentation violation (ANSI)."],
     [sigid |-> "SIGUSR2", signum |-> 12, sigtext |-> "User-defined signal 2 (POSIX)."],
     [sigid |-> "SIGPIPE", signum |-> 13, sigtext |-> "Broken pipe (POSIX)."],
     [sigid |-> "SIGALRM", signum |-> 14, sigtext |-> "Alarm clock (POSIX)."],
     [sigid |-> "SIGTERM", signum |-> 15, sigtext |-> "Termination (ANSI)."],
     [sigid |-> "SIGSTKFLT", signum |-> 16, sigtext |-> "Stack fault."],
     [sigid |-> "SIGCHLD", signum |-> 17, sigtext |-> "Child status has changed (POSIX)."],
     [sigid |-> "SIGCONT", signum |-> 18, sigtext |-> "Continue (POSIX)."],
     [sigid |-> "SIGSTOP", signum |-> 19, sigtext |-> "Stop, unblockable (POSIX)."],
     [sigid |-> "SIGTSTP", signum |-> 20, sigtext |-> "Keyboard stop (POSIX)."],
     [sigid |-> "SIGTTIN", signum |-> 21, sigtext |-> "Background read from tty (POSIX)."],
     [sigid |-> "SIGTTOU", signum |-> 22, sigtext |-> "Background write to tty (POSIX)."],
     [sigid |-> "SIGURG", signum |-> 23, sigtext |-> "Urgent condition on socket (4.2 BSD)."],
     [sigid |-> "SIGXCPU", signum |-> 24, sigtext |-> "CPU limit exceeded (4.2 BSD)."],
     [sigid |-> "SIGXFSZ", signum |-> 25, sigtext |-> "File size limit exceeded (4.2 BSD)."],
     [sigid |-> "SIGVTALRM", signum |-> 26, sigtext |-> "Virtual alarm clock (4.2 BSD)."],
     [sigid |-> "SIGPROF", signum |-> 27, sigtext |-> "Profiling alarm clock (4.2 BSD)."],
     [sigid |-> "SIGWINCH", signum |-> 28, sigtext |-> "Window size change (4.3 BSD, Sun)."],
     [sigid |-> "SIGIO", signum |-> 29, sigtext |-> "I/O now possible (4.2 BSD)."],
     [sigid |-> "SIGPWR", signum |-> 30, sigtext |-> "Power failure restart (System V)."],
     [sigid |-> "SIGSYS", signum |-> 31, sigtext |-> "Bad system call."]
  >>

SignalLine(d) ==
  "EXIT - Killed by UNIX signal " \o d.sigid \o "[" \o str(d.signum) \o "]: '" \o d.sigtext \o "'"

\* C4: explain_signal returns, for every signum in 1..31, the line
\* "EXIT - Killed by UNIX signal <SIGNAME>[<signum>]: '<description>'" of a
\* definition line declared for that number, and raises a lookup error for every
\* int outside 1..31.
C4_ExplainSignalPartial ==
  pc = "done" =>
    /\ \A x \in SignalProbes :
         IF x.t = "int" /\ x.n \in 1..31
         THEN \E k \in 1..Len(SignalDefinitions) :
                /\ SignalDefinitions[k].signum = x.n
                /\ explain_signal(x) = Returns(SignalLine(SignalDefinitions[k]))
         ELSE explain_signal(x).kind = "KeyError"
    /\ explain_signal(PyInt(8)) = Returns("EXIT - Killed by UNIX signal SIGFPE[8]: 'Floating-point exception (ANSI).'")
    /\ explain_signal(PyInt(11)) = Returns("EXIT - Killed by UNIX signal SIGSEGV[11]: 'Segmentation violation (ANSI).'")
    /\ last.fn = "explain_signal" =>
         (last.out.kind = "str") = (last.arg.t = "int" /\ last.arg.n \in 1..31)

C4_Witness ==
  /\ last.fn = "explain_signal"
  /\ last.arg = PyInt(6)
  /\ last.out.kind = "str"
  /\ explain_signal(PyInt(0)).kind = "KeyError"

\* C5: after initialization no two declared names share a value, and
\* _CODE_TO_NAME maps each declared value and its decimal string to the one name
\* declared with that value, and has no other key.
C5_RegistryBijection ==
  RegistryBuilt =>
    /\ \A a, b \in 1..Len(_EXIT_CODES) : a # b => _EXIT_CODES[a].code # _EXIT_CODES[b].code
    /\ DOMAIN _CODE_TO_NAME =
         {PyInt(c) : c \in DeclaredCodes} \cup {PyStr(str(c)) : c \in DeclaredCodes}
    /\ \A k \in 1..Len(_EXIT_CODES) :
         /\ _CODE_TO_NAME[PyInt(_EXIT_CODES[k].code)] = _EXIT_CODES[k].name
         /\ _CODE_TO_NAME[PyStr(str(_EXIT_CODES[k].code))] = _EXIT_CODES[k].name

C5_Witness ==
  /\ pc = "done"
  /\ Cardinality(DOMAIN _CODE_TO_NAME) = 2 * Len(_EXIT_CODES)
  /\ _CODE_TO_NAME[PyStr("41")] = "MVM_ERROR"

HasDuplicateCode ==
  \E a, b \in 1..Len(_EXIT_CODES) : a # b /\ _EXIT_CODES[a].code = _EXIT_CODES[b].code

\* C6: when two declared names were given the same value, the registry loop ends
\* in a fatal error and does not run to its end.
C6_DuplicateValueFailsFast == HasDuplicateCode => ~RegistryBuilt

Unexplained == {k \in 1..Len(_EXIT_CODES) : _EXIT_CODES[k].name \notin DOMAIN _NAME_EXPLANATIONS}

\* C7: when a declared name has no explanation the registry loop stops with an
\* assertion failure at the first such name; so once initialization has run to
\* its end every declared name has an explanation, and the explanation lookup of
\* explain cannot fail.
C7_MissingExplanationFailsFast ==
  /\ RegistryBuilt => Unexplained = {}
  /\ Unexplained # {} =>
       /\ pc \in {"registry_loop", "AssertionError"}
       /\ \A k \in Unexplained : i <= k
  /\ pc = "AssertionError" => i \in Unexplained
  /\ pc = "done" =>
       /\ \A x \in Probes : explain(x) # Raises("KeyError", "_NAME_EXPLANATIONS[name]")
       /\ last.fn = "explain" => last.out # Raises("KeyError", "_NAME_EXPLANATIONS[name]")

C7_Witness ==
  /\ pc = "AssertionError"
  /\ i = 2
  /\ _EXIT_CODES[1].name \in DOMAIN _NAME_EXPLANATIONS

\* C8: SUCCESS is 0, GENERIC_ERROR is 1, every other declared code has a value
\* in 2..255, and the memory-error codes are exactly the codes in 31..34.
C8_ReservedLayout ==
  pc = "done" =>
    /\ globals["SUCCESS"] = 0
    /\ globals["GENERIC_ERROR"] = 1
    /\ \A n \in DOMAIN globals \ {"SUCCESS", "GENERIC_ERROR"} : globals[n] \in 2..255
    /\ {globals[n] : n \in MemoryErrorNames} = 31..34
    /\ \A n \in DOMAIN globals : globals[n] \in 31..34 => n \in MemoryErrorNames
    /\ \A k \in 1..Len(_EXIT_CODES) : globals[_EXIT_CODES[k].name] = _EXIT_CODES[k].code

C8_Witness ==
  /\ pc = "done"
  /\ MemoryErrorNames \subseteq DOMAIN globals
  /\ globals["MVM_ERROR"] = 41

Apply(fn, x) ==
  CASE fn = "explain" -> explain(x)
    [] fn = "is_memory_error" -> is_memory_error(x)
    [] fn = "explain_signal" -> explain_signal(x)

\* C9: after initialization every call leaves the dictionaries and the injected
\* constants as they were, and a call repeated with the same argument gives the
\* same outcome: the call just made and the call made before it would both give,
\* in the state the step ends in, the outcome they gave.
C9_CallsArePure ==
  [][ pc = "done" =>
        /\ pc' = "done"
        /\ tables' = tables
        /\ last'.fn # "none"
        /\ (Apply(last.fn, last.arg) = last.out)'
        /\ last.fn # "none" =>
             \A fn \in {last.fn} : \A x \in {last.arg} : Apply(fn, x)' = last.out ]_vars

C9_Witness ==
  /\ last.fn = "explain_signal"
  /\ last.out.kind = "KeyError"
  /\ explain(PyInt(999)).kind = "str"

\* the name explain resolves x to
Resolves(x) == x \in DOMAIN _CODE_TO_NAME \/ IsDeclaredName(x)
ResolvedName(x) == IF x \in DOMAIN _CODE_TO_NAME THEN _CODE_TO_NAME[x] ELSE x.s

\* C10 as stated: for every key x that explain resolves (an int, the decimal
\* string of an int, or a name), is_memory_error(x) is true iff the resolved
\* name is a memory-error name; so "31" .. "34" classify as memory errors.
C10_AgreesOnEveryKeyForm ==
  (last.fn = "is_memory_error" /\ Resolves(last.arg))
    => last.out = ReturnsBool(ResolvedName(last.arg) \in MemoryErrorNames)

\* C10 amended: for every int or name that explain resolves, is_memory_error is
\* true iff the resolved name is a memory-error name; for the decimal string of
\* a declared value it is false, "31" .. "34" included.
C10_AgreesOnIntAndName ==
  pc = "done" =>
    /\ \A x \in Probes :
         Resolves(x) =>
           is_memory_error(x) =
             ReturnsBool(~IsDeclaredCodeStr(x) /\ ResolvedName(x) \in MemoryErrorNames)
    /\ \A c \in 31..34 : is_memory_error(PyStr(str(c))) = ReturnsBool(FALSE)
    /\ (last.fn = "is_memory_error" /\ Resolves(last.arg) /\ ~IsDeclaredCodeStr(last.arg))
         => last.out = ReturnsBool(ResolvedName(last.arg) \in MemoryErrorNames)

C10_Witness ==
  /\ last.fn = "is_memory_error"
  /\ last.arg = PyStr("31")
  /\ last.out = ReturnsBool(FALSE)
  /\ explain(PyStr("31")).kind = "str"

====
